---- MODULE Spec2Model ----
(***************************************************************************)
(* A model of the timezone-preference store and the timestamp resolver of  *)
(* src/main.py: the three slash commands set_my_timezone,                  *)
(* set_server_timezone and timestamp, the two MongoDB collections they     *)
(* share, the date parser (datetime.strptime over six formats) and the     *)
(* localisation step (pytz localize with is_dst=None).                     *)
(*                                                                         *)
(* Each slash-command handler is one action, from its defer to its last   *)
(* send: a setting command makes one store call and /timestamp only reads, *)
(* so the handlers are taken one at a time.  The response the handler      *)
(* sends, and what it did on the way (which collections it read, which     *)
(* format parsed, which exception left the handler), is recorded in `out`. *)
(***************************************************************************)
EXTENDS Integers, Sequences, FiniteSets, TLC

VARIABLES
    user_settings,   \* collection "user_settings": a set of documents [_id, timezone]
    guild_settings,  \* collection "guild_settings": a set of documents [_id, default_timezone]
    hist,            \* history: per key, the zone of the latest acknowledged upsert ("" = never)
    out              \* the latest handler invocation: its arguments, response and trace

vars == <<user_settings, guild_settings, hist, out>>

----------------------------------------------------------------------------
(* Bounds of the model *)

NumUsers == 2
NumGuilds == 2

Users == 1 .. NumUsers
Guilds == 1 .. NumGuilds

----------------------------------------------------------------------------
(* Values of the platform and of the libraries *)

\* interaction.guild_id of a direct message (None; falsy like 0)
NoGuild == 0

\* find_one's result when no document matches (None; falsy like {})
NoDoc == << >>

\* an absent optional string argument (None; falsy like "")
NoTz == ""

\* the zone database pytz resolves names against (a part of it)
all_timezones == {"UTC", "America/New_York", "Europe/Amsterdam", "Asia/Tokyo"}

\* zone names a caller may type, recognised or not
ZoneNames == all_timezones \cup {"Mars/Phobos"}

\* str.upper() on the zone names
upper(s) ==
    CASE s = "UTC" -> "UTC"
      [] s = "America/New_York" -> "AMERICA/NEW_YORK"
      [] s = "Europe/Amsterdam" -> "EUROPE/AMSTERDAM"
      [] s = "Asia/Tokyo" -> "ASIA/TOKYO"
      [] s = "Mars/Phobos" -> "MARS/PHOBOS"
      [] OTHER -> s

\* pytz.timezone(name): the name is looked up case-insensitively; an unknown
\* name raises UnknownTimeZoneError
pytz_timezone(name) ==
    IF \E z \in all_timezones : upper(z) = upper(name)
    THEN [raised |-> "", zone |-> CHOOSE z \in all_timezones : upper(z) = upper(name)]
    ELSE [raised |-> "UnknownTimeZoneError", zone |-> name]

\* app_commands.Choice values offered for format_style; "" is no choice
FORMAT_OPTIONS ==
    << [name |-> "Short Time (16:20)", value |-> "t"],
       [name |-> "Long Time (16:20:30)", value |-> "T"],
       [name |-> "Short Date (20/04/2021)", value |-> "d"],
       [name |-> "Long Date (20 April 2021)", value |-> "D"],
       [name |-> "Default Date/Time (20 April 2021 16:20)", value |-> "f"],
       [name |-> "Full Date/Time (Tuesday, 20 April 2021 16:20)", value |-> "F"],
       [name |-> "Relative Time (2 months ago)", value |-> "R"] >>

NoChoice == [name |-> "", value |-> ""]

----------------------------------------------------------------------------
(* The document store *)

HasField(doc, key) == doc # NoDoc /\ key \in DOMAIN doc

\* collection.find_one({"_id": id})
find_one(coll, id) ==
    LET matched == {d \in coll : d._id = id}
    IN  IF matched = {} THEN NoDoc ELSE CHOOSE d \in matched : TRUE

\* one document after {"$set": fields}
set_fields(doc, fields) ==
    [k \in DOMAIN doc \cup DOMAIN fields |->
        IF k \in DOMAIN fields THEN fields[k] ELSE doc[k]]

\* update_one without the match on _id: it always inserts
update_one_insert_only(coll, id, fields) ==
    coll \cup {set_fields([_id |-> id], fields)}

\* collection.update_one({"_id": id}, {"$set": fields}, upsert=True)
update_one(coll, id, fields) ==
    LET matched == {d \in coll : d._id = id}
    IN  IF matched = {}
        THEN coll \cup {set_fields([_id |-> id], fields)}
        ELSE LET d == CHOOSE e \in matched : TRUE
             IN  (coll \ {d}) \cup {set_fields(d, fields)}

\* the UpdateResult of that update_one: matched_count, modified_count and
\* whether a document was inserted (upserted_id is not None)
update_result(coll, id, fields) ==
    LET matched == {d \in coll : d._id = id}
    IN  IF matched = {}
        THEN [matched_count |-> 0, modified_count |-> 0, upserted |-> TRUE]
        ELSE [matched_count |-> 1,
              modified_count |->
                  IF set_fields(CHOOSE e \in matched : TRUE, fields) \in matched
                  THEN 0 ELSE 1,
              upserted |-> FALSE]

\* no update_one was acknowledged
NoUpdate == [matched_count |-> 0, modified_count |-> 0, upserted |-> FALSE]

----------------------------------------------------------------------------
(* Responses *)

NoResponse == [kind |-> "none"]

TimezoneError(timezone) == [kind |-> "timezone_error", timezone |-> timezone]

PersonalSet(timezone) == [kind |-> "personal_set", timezone |-> timezone]

ServerSet(timezone) == [kind |-> "server_set", timezone |-> timezone]

ServerOnly == [kind |-> "server_only"]

\* the three formats the "Date/Time Format Error" message names
FormatErrorHints == <<"YYYY-MM-DD HH:MM", "DD-MM-YYYY HH:MM", "MM-DD-YYYY HH:MM">>

FormatError(date_time) ==
    [kind |-> "format_error", date_time |-> date_time, formats |-> FormatErrorHints]

UnexpectedError == [kind |-> "unexpected_error"]

----------------------------------------------------------------------------
(* Calendar arithmetic of datetime *)

IsLeap(y) == (y % 4 = 0 /\ y % 100 # 0) \/ y % 400 = 0

DaysInMonth(y, m) ==
    IF m = 2 THEN (IF IsLeap(y) THEN 29 ELSE 28)
    ELSE IF m \in {4, 6, 9, 11} THEN 30 ELSE 31

\* days from 1970-01-01 to the proleptic Gregorian date y-m-d
DaysFromCivil(y, m, d) ==
    LET yy  == IF m <= 2 THEN y - 1 ELSE y
        era == yy \div 400
        yoe == yy - era * 400
        mp  == (m + 9) % 12
        doy == (153 * mp + 2) \div 5 + d - 1
        doe == yoe * 365 + yoe \div 4 - yoe \div 100 + doy
    IN  era * 146097 + doe - 719468

\* a naive datetime as seconds on its own wall clock
WallSeconds(dt) ==
    DaysFromCivil(dt.year, dt.month, dt.day) * 86400 + dt.hour * 3600 + dt.minute * 60

\* the instant of a UTC wall-clock reading
UtcInstant(y, m, d, hh, mm) ==
    WallSeconds([year |-> y, month |-> m, day |-> d, hour |-> hh, minute |-> mm])

----------------------------------------------------------------------------
(* datetime.strptime *)

\* The text of date_time is kept as its digit groups and what follows them:
\* "31-12-2025 11:59PM" is groups <<3,1>>, <<1,2>>, <<2,0,2,5>>, <<1,1>>,
\* <<5,9>> and suffix "PM".  A text of another shape has no groups.
DateText(g1, g2, g3, hh, mm, suffix) ==
    [groups |-> <<g1, g2, g3, hh, mm>>, suffix |-> suffix]

FreeText(words) == [groups |-> << >>, suffix |-> words]

RECURSIVE Val(_)
Val(g) == IF g = << >> THEN 0 ELSE 10 * Val(SubSeq(g, 1, Len(g) - 1)) + g[Len(g)]

\* the directives' regular expressions, on one digit group
Match_Y(g) == Len(g) = 4
Match_m(g) == Len(g) \in {1, 2} /\ Val(g) \in 1 .. 12
Match_d(g) == Len(g) \in {1, 2} /\ Val(g) \in 1 .. 31
Match_H(g) == Len(g) \in {1, 2} /\ Val(g) \in 0 .. 23
Match_I(g) == Len(g) \in {1, 2} /\ Val(g) \in 1 .. 12
Match_M(g) == Len(g) \in {1, 2} /\ Val(g) \in 0 .. 59
Match_p(suffix) == suffix \in {"AM", "PM", "am", "pm"}

IsPM(suffix) == suffix \in {"PM", "pm"}

\* the list with each American format ahead of its European one
formats_to_try_american_first ==
    << [date |-> "Ymd", clock |-> "HM"],
       [date |-> "mdY", clock |-> "HM"],
       [date |-> "dmY", clock |-> "HM"],
       [date |-> "Ymd", clock |-> "IMp"],
       [date |-> "mdY", clock |-> "IMp"],
       [date |-> "dmY", clock |-> "IMp"] >>

formats_to_try ==
    << [date |-> "Ymd", clock |-> "HM"],    \* '%Y-%m-%d %H:%M'
       [date |-> "dmY", clock |-> "HM"],    \* '%d-%m-%Y %H:%M'
       [date |-> "mdY", clock |-> "HM"],    \* '%m-%d-%Y %H:%M'
       [date |-> "Ymd", clock |-> "IMp"],   \* '%Y-%m-%d %I:%M%p'
       [date |-> "dmY", clock |-> "IMp"],   \* '%d-%m-%Y %I:%M%p'
       [date |-> "mdY", clock |-> "IMp"] >> \* '%m-%d-%Y %I:%M%p'

NoDatetime == [year |-> 0, month |-> 0, day |-> 0, hour |-> 0, minute |-> 0]

\* datetime.strptime(date_time, fmt): the datetime, or ValueError
strptime(date_time, fmt) ==
    LET g == date_time.groups
        bad == [raised |-> "ValueError", dt |-> NoDatetime]
    IN  IF Len(g) # 5 THEN bad
        ELSE
        LET gy == IF fmt.date = "Ymd" THEN g[1] ELSE g[3]
            gm == IF fmt.date = "Ymd" THEN g[2] ELSE IF fmt.date = "dmY" THEN g[2] ELSE g[1]
            gd == IF fmt.date = "Ymd" THEN g[3] ELSE IF fmt.date = "dmY" THEN g[1] ELSE g[2]
            dateOk == Match_Y(gy) /\ Match_m(gm) /\ Match_d(gd)
            clockOk ==
                IF fmt.clock = "HM"
                THEN Match_H(g[4]) /\ Match_M(g[5]) /\ date_time.suffix = ""
                ELSE Match_I(g[4]) /\ Match_M(g[5]) /\ Match_p(date_time.suffix)
            hour ==
                IF fmt.clock = "HM" THEN Val(g[4])
                ELSE IF IsPM(date_time.suffix)
                     THEN (IF Val(g[4]) = 12 THEN 12 ELSE Val(g[4]) + 12)
                     ELSE (IF Val(g[4]) = 12 THEN 0 ELSE Val(g[4]))
        IN  IF ~(dateOk /\ clockOk) THEN bad
            ELSE IF Val(gy) < 1 \/ Val(gd) > DaysInMonth(Val(gy), Val(gm)) THEN bad
            ELSE [raised |-> "",
                  dt |-> [year |-> Val(gy), month |-> Val(gm), day |-> Val(gd),
                          hour |-> hour, minute |-> Val(g[5])]]

\* the loop over formats_to_try, from format i on: the index of the first
\* format that parses (0 when none does) and its datetime
RECURSIVE try_formats(_, _)
try_formats(date_time, i) ==
    IF i > Len(formats_to_try) THEN [fmt |-> 0, dt |-> NoDatetime]
    ELSE LET r == strptime(date_time, formats_to_try[i])
         IN  IF r.raised = "" THEN [fmt |-> i, dt |-> r.dt]
             ELSE try_formats(date_time, i + 1)

----------------------------------------------------------------------------
(* pytz: the zones' transition tables and localize *)

\* _utc_transition_times with _transition_info: from each instant `at` on,
\* the zone's UTC offset is `off` seconds.  The tables hold the offset in
\* force before 2025 (their first entry always applies to an earlier instant,
\* as pytz's entry of year 1 does) and the transitions of 2025.
ZoneTransitions(zone) ==
    CASE zone = "America/New_York" ->
           << [at |-> UtcInstant(1970, 1, 1, 0, 0), off |-> -(5 * 3600)],
              [at |-> UtcInstant(2025, 3, 9, 7, 0), off |-> -(4 * 3600)],
              [at |-> UtcInstant(2025, 11, 2, 6, 0), off |-> -(5 * 3600)] >>
      [] zone = "Europe/Amsterdam" ->
           << [at |-> UtcInstant(1970, 1, 1, 0, 0), off |-> 3600],
              [at |-> UtcInstant(2025, 3, 30, 1, 0), off |-> 2 * 3600],
              [at |-> UtcInstant(2025, 10, 26, 1, 0), off |-> 3600] >>
      [] zone = "Asia/Tokyo" ->
           << [at |-> UtcInstant(1970, 1, 1, 0, 0), off |-> 9 * 3600] >>
      [] OTHER ->
           << [at |-> UtcInstant(1970, 1, 1, 0, 0), off |-> 0] >>

\* the offset in force at `instant`: the entry at
\* max(0, bisect_right(_utc_transition_times, instant) - 1)
OffsetAt(zone, instant) ==
    LET tbl == ZoneTransitions(zone)
        idx == CHOOSE i \in 1 .. Len(tbl) :
                 /\ (i = 1 \/ tbl[i].at <= instant)
                 /\ \A j \in (i + 1) .. Len(tbl) : tbl[j].at > instant
    IN  tbl[idx].off

\* localize with the offset added to the wall clock, not subtracted from it
localize_offset_added(zone, dt) ==
    LET wall == WallSeconds(dt)
        tried == {OffsetAt(zone, wall + delta) : delta \in {-86400, 86400}}
        possible == {off \in tried : OffsetAt(zone, wall - off) = off}
    IN  IF Cardinality(possible) = 1
        THEN [raised |-> "", instant |-> wall + (CHOOSE off \in possible : TRUE)]
        ELSE IF possible = {}
        THEN [raised |-> "NonExistentTimeError", instant |-> 0]
        ELSE [raised |-> "AmbiguousTimeError", instant |-> 0]

\* tz.localize(dt, is_dst=None): the instant of the wall-clock reading dt, or
\* NonExistentTimeError / AmbiguousTimeError when no or two offsets fit it
localize(zone, dt) ==
    LET wall == WallSeconds(dt)
        tried == {OffsetAt(zone, wall + delta) : delta \in {-86400, 86400}}
        possible == {off \in tried : OffsetAt(zone, wall - off) = off}
    IN  IF Cardinality(possible) = 1
        THEN [raised |-> "", instant |-> wall - (CHOOSE off \in possible : TRUE)]
        ELSE IF possible = {}
        THEN [raised |-> "NonExistentTimeError", instant |-> 0]
        ELSE [raised |-> "AmbiguousTimeError", instant |-> 0]

----------------------------------------------------------------------------
(* The markup *)

\* str(n) of a non-negative integer, as its decimal digits
RECURSIVE Decimal(_)
Decimal(n) == IF n < 10 THEN <<n>> ELSE Append(Decimal(n \div 10), n % 10)

\* f'<t:{unix_timestamp}:{style}>'
discord_format(unix_timestamp, style) ==
    [open |-> "<t:", digits |-> Decimal(unix_timestamp), sep |-> ":",
     style |-> style, close |-> ">"]

----------------------------------------------------------------------------
(* The handlers *)

\* One awaited store call returns ("ok"), raises because the store is
\* unavailable ("error"), or is cancelled while it waits ("cancelled").
StoreRaises(io) == IF io = "error" THEN "PyMongoError" ELSE "CancelledError"

\* /set_my_timezone with the upsert moved above the validation
set_user_timezone_slash_write_first(user, timezone, io) ==
    LET req == [op |-> "set_my_timezone", user |-> user, timezone |-> timezone]
        tz  == pytz_timezone(timezone)
    IN  IF io # "ok"
        THEN /\ out' = [req |-> req, resp |-> NoResponse, raised |-> StoreRaises(io),
                         result |-> NoUpdate]
             /\ UNCHANGED <<user_settings, guild_settings, hist>>
        ELSE /\ user_settings' = update_one(user_settings, user, [timezone |-> timezone])
             /\ hist' = [hist EXCEPT !.user[user] = timezone]
             /\ out' = [req |-> req,
                        resp |-> IF tz.raised # "" THEN TimezoneError(timezone)
                                 ELSE PersonalSet(timezone),
                        raised |-> "",
                        result |-> update_result(user_settings, user,
                                                 [timezone |-> timezone])]
             /\ UNCHANGED guild_settings

\* /set_my_timezone
set_user_timezone_slash(user, timezone, io) ==
    LET req == [op |-> "set_my_timezone", user |-> user, timezone |-> timezone]
        tz  == pytz_timezone(timezone)
    IN  IF tz.raised # ""
        THEN /\ out' = [req |-> req, resp |-> TimezoneError(timezone), raised |-> "",
                         result |-> NoUpdate]
             /\ UNCHANGED <<user_settings, guild_settings, hist>>
        ELSE IF io # "ok"
        THEN /\ out' = [req |-> req, resp |-> NoResponse, raised |-> StoreRaises(io),
                         result |-> NoUpdate]
             /\ UNCHANGED <<user_settings, guild_settings, hist>>
        ELSE /\ user_settings' = update_one(user_settings, user, [timezone |-> timezone])
             /\ hist' = [hist EXCEPT !.user[user] = timezone]
             /\ out' = [req |-> req, resp |-> PersonalSet(timezone), raised |-> "",
                         result |-> update_result(user_settings, user,
                                                  [timezone |-> timezone])]
             /\ UNCHANGED guild_settings

\* /set_server_timezone
set_server_timezone_slash(guild, timezone, io) ==
    LET req == [op |-> "set_server_timezone", guild |-> guild, timezone |-> timezone]
        tz  == pytz_timezone(timezone)
    IN  IF guild = NoGuild
        THEN /\ out' = [req |-> req, resp |-> ServerOnly, raised |-> "",
                         result |-> NoUpdate]
             /\ UNCHANGED <<user_settings, guild_settings, hist>>
        ELSE IF tz.raised # ""
        THEN /\ out' = [req |-> req, resp |-> TimezoneError(timezone), raised |-> "",
                         result |-> NoUpdate]
             /\ UNCHANGED <<user_settings, guild_settings, hist>>
        ELSE IF io # "ok"
        THEN /\ out' = [req |-> req, resp |-> NoResponse, raised |-> StoreRaises(io),
                         result |-> NoUpdate]
             /\ UNCHANGED <<user_settings, guild_settings, hist>>
        ELSE /\ guild_settings' =
                    update_one(guild_settings, guild, [default_timezone |-> timezone])
             /\ hist' = [hist EXCEPT !.guild[guild] = timezone]
             /\ out' = [req |-> req, resp |-> ServerSet(timezone), raised |-> "",
                         result |-> update_result(guild_settings, guild,
                                                  [default_timezone |-> timezone])]
             /\ UNCHANGED user_settings

\* step 1 with the server's setting looked up before the user's
determine_timezone_server_first(user, guild, timezone, io_user, io_guild) ==
    LET user_setting  == find_one(user_settings, user)
        guild_setting == find_one(guild_settings, guild)
    IN  IF timezone # NoTz
        THEN [raised |-> "", timezone |-> timezone, default_zone_source |-> "",
              reads |-> {}, via |-> "argument"]
        ELSE IF io_user # "ok"
        THEN [raised |-> StoreRaises(io_user), timezone |-> timezone,
              default_zone_source |-> "", reads |-> {"guild_settings"}, via |-> ""]
        ELSE IF guild # NoGuild /\ HasField(guild_setting, "default_timezone")
        THEN [raised |-> "", timezone |-> guild_setting.default_timezone,
              default_zone_source |-> "(Server Default)",
              reads |-> {"guild_settings"}, via |-> "guild_setting"]
        ELSE IF io_guild # "ok"
        THEN [raised |-> StoreRaises(io_guild), timezone |-> timezone,
              default_zone_source |-> "",
              reads |-> {"user_settings", "guild_settings"}, via |-> ""]
        ELSE IF HasField(user_setting, "timezone")
        THEN [raised |-> "", timezone |-> user_setting.timezone,
              default_zone_source |-> "(Your Personal Default)",
              reads |-> {"user_settings", "guild_settings"}, via |-> "user_setting"]
        ELSE [raised |-> "", timezone |-> "UTC", default_zone_source |-> "",
              reads |-> {"user_settings", "guild_settings"},
              via |-> IF guild # NoGuild THEN "utc_in_guild" ELSE "utc_in_dm"]

\* /timestamp, step 1: "Argument > User Setting > Server Setting > UTC".
\* The result holds the handler's locals timezone and default_zone_source,
\* the collections it queried, the branch it took, and what a query raised.
determine_timezone(user, guild, timezone, io_user, io_guild) ==
    IF timezone # NoTz
    THEN [raised |-> "", timezone |-> timezone, default_zone_source |-> "",
          reads |-> {}, via |-> "argument"]
    ELSE IF io_user # "ok"
    THEN [raised |-> StoreRaises(io_user), timezone |-> timezone,
          default_zone_source |-> "", reads |-> {"user_settings"}, via |-> ""]
    ELSE
    LET user_setting == find_one(user_settings, user)
    IN  IF HasField(user_setting, "timezone")
        THEN [raised |-> "", timezone |-> user_setting.timezone,
              default_zone_source |-> "(Your Personal Default)",
              reads |-> {"user_settings"}, via |-> "user_setting"]
        ELSE IF guild # NoGuild
        THEN IF io_guild # "ok"
             THEN [raised |-> StoreRaises(io_guild), timezone |-> timezone,
                   default_zone_source |-> "",
                   reads |-> {"user_settings", "guild_settings"}, via |-> ""]
             ELSE
             LET guild_setting == find_one(guild_settings, guild)
             IN  IF HasField(guild_setting, "default_timezone")
                 THEN [raised |-> "", timezone |-> guild_setting.default_timezone,
                       default_zone_source |-> "(Server Default)",
                       reads |-> {"user_settings", "guild_settings"},
                       via |-> "guild_setting"]
                 ELSE [raised |-> "", timezone |-> "UTC", default_zone_source |-> "",
                       reads |-> {"user_settings", "guild_settings"},
                       via |-> "utc_in_guild"]
        ELSE [raised |-> "", timezone |-> "UTC", default_zone_source |-> "",
              reads |-> {"user_settings"}, via |-> "utc_in_dm"]

\* /timestamp, steps 4 and 5: the embed
timestamp_embed(dt, timezone, default_zone_source, unix_timestamp, format_style) ==
    LET style      == IF format_style # NoChoice THEN format_style.value ELSE "F"
        style_name == IF format_style # NoChoice THEN format_style.name
                      ELSE "Full Date/Time"
    IN  [kind |-> "embed",
         input_time |-> dt,
         zone_label |-> upper(timezone),
         source |-> default_zone_source,
         unix |-> unix_timestamp,
         style |-> style,
         style_name |-> style_name,
         code |-> discord_format(unix_timestamp, style)]

\* What one /timestamp invocation leaves behind: its arguments, its response,
\* the exception that left the handler (raised), the exception one of its
\* except clauses caught (caught), and its locals: timezone, the branch of
\* step 1 (via), the collections queried (reads), the format that parsed (fmt)
timestamp_outcome(req, z, fmt, caught, raised, resp) ==
    [req |-> req, resp |-> resp, raised |-> raised, caught |-> caught,
     timezone |-> z.timezone, via |-> z.via, reads |-> z.reads, fmt |-> fmt]

\* steps 4 and 5, after tz.localize: its exceptions reach "except Exception"
timestamp_render(req, z, parsed, localized_dt) ==
    IF localized_dt.raised # ""
    THEN timestamp_outcome(req, z, parsed.fmt, localized_dt.raised, "", UnexpectedError)
    ELSE timestamp_outcome(req, z, parsed.fmt, "", "",
            timestamp_embed(parsed.dt, z.timezone, z.default_zone_source,
                            localized_dt.instant, req.format_style))

\* step 3, after the loop over formats_to_try
timestamp_localize(req, z, tz, parsed) ==
    IF parsed.fmt = 0
    THEN timestamp_outcome(req, z, 0, "", "", FormatError(req.date_time))
    ELSE timestamp_render(req, z, parsed, localize(tz.zone, parsed.dt))

\* step 2, after pytz.timezone(timezone)
timestamp_parse(req, z, tz) ==
    IF tz.raised # ""
    THEN timestamp_outcome(req, z, 0, tz.raised, "", TimezoneError(z.timezone))
    ELSE timestamp_localize(req, z, tz, try_formats(req.date_time, 1))

\* after step 1: a store error reaches "except Exception"; a cancellation is
\* no Exception and leaves the handler
timestamp_validate(req, z) ==
    IF z.raised = "CancelledError"
    THEN timestamp_outcome(req, z, 0, "", "CancelledError", NoResponse)
    ELSE IF z.raised # ""
    THEN timestamp_outcome(req, z, 0, z.raised, "", UnexpectedError)
    ELSE timestamp_parse(req, z, pytz_timezone(z.timezone))

\* /timestamp that also saves an explicit timezone as the user's default
generate_timestamp_slash_saving(user, guild, date_time, timezone, format_style, io_user, io_guild) ==
    /\ out' = timestamp_validate(
                 [op |-> "timestamp", user |-> user, guild |-> guild,
                  date_time |-> date_time, timezone |-> timezone,
                  format_style |-> format_style],
                 determine_timezone(user, guild, timezone, io_user, io_guild))
    /\ user_settings' =
          IF timezone # NoTz /\ pytz_timezone(timezone).raised = ""
          THEN update_one(user_settings, user, [timezone |-> timezone])
          ELSE user_settings
    /\ UNCHANGED <<guild_settings, hist>>

\* /timestamp
generate_timestamp_slash(user, guild, date_time, timezone, format_style, io_user, io_guild) ==
    /\ out' = timestamp_validate(
                 [op |-> "timestamp", user |-> user, guild |-> guild,
                  date_time |-> date_time, timezone |-> timezone,
                  format_style |-> format_style],
                 determine_timezone(user, guild, timezone, io_user, io_guild))
    /\ UNCHANGED <<user_settings, guild_settings, hist>>

----------------------------------------------------------------------------
(* The bot: any user, in any server or in a direct message, runs any command *)

\* zone names given to the two setting commands
SetZones == {"America/New_York", "Europe/Amsterdam", "Mars/Phobos"}

\* the timezone argument of /timestamp
TimezoneArgs == {NoTz, "Asia/Tokyo", "Mars/Phobos"}

\* the date_time argument of /timestamp
DateTimes ==
    { DateText(<<2,0,2,5>>, <<0,7>>, <<0,4>>, <<1,2>>, <<0,0>>, ""),
      DateText(<<3,0>>, <<0,3>>, <<2,0,2,5>>, <<0,2>>, <<3,0>>, ""),
      FreeText("next tuesday") }

\* the format_style argument of /timestamp
FormatStyles == {NoChoice, FORMAT_OPTIONS[7]}

\* what the store calls of one invocation do, in order: the first call and,
\* when the first returned, the second
StoreScripts ==
    { <<"ok", "ok">>, <<"error", "ok">>, <<"cancelled", "ok">>,
      <<"ok", "error">>, <<"ok", "cancelled">> }

Idle == [req |-> [op |-> "none"], resp |-> NoResponse, raised |-> ""]

Init ==
    /\ user_settings = {}
    /\ guild_settings = {}
    /\ hist = [user |-> [u \in Users |-> ""], guild |-> [g \in Guilds |-> ""]]
    /\ out = Idle

SetMyTimezone ==
    /\ out = Idle
    /\ \E user \in Users, timezone \in SetZones, io \in {"ok", "error"} :
         set_user_timezone_slash(user, timezone, io)

SetServerTimezone ==
    /\ out = Idle
    /\ \E guild \in Guilds \cup {NoGuild}, timezone \in SetZones, io \in {"ok", "error"} :
         set_server_timezone_slash(guild, timezone, io)

Timestamp ==
    /\ out = Idle
    /\ \E user \in Users, guild \in Guilds \cup {NoGuild}, date_time \in DateTimes,
          timezone \in TimezoneArgs, format_style \in FormatStyles,
          io \in StoreScripts :
         generate_timestamp_slash(user, guild, date_time, timezone, format_style,
                                  io[1], io[2])

\* the interaction is over: the platform has shown the response (or given up
\* on a handler that sent none) and the bot awaits the next command
Done ==
    /\ out # Idle
    /\ out' = Idle
    /\ UNCHANGED <<user_settings, guild_settings, hist>>

Next == SetMyTimezone \/ SetServerTimezone \/ Timestamp \/ Done

Spec == Init /\ [][Next]_vars

----------------------------------------------------------------------------
(* The resolver alone: one user, in a direct message, with an empty store,
   asks for timestamps of many texts *)

\* digit groups that make dates of every shape: a year, days and months, a
\* day that is no month, a month-less zero, a single digit
ShapeGroups == {<<2,0,2,5>>, <<0,1>>, <<0,2>>, <<1,3>>, <<3,1>>, <<0,0>>, <<7>>}

\* clock readings: 24-hour, 12-hour, midnight as 12am, 13 o'clock with a
\* meridiem, a single-digit hour
ShapeClocks ==
    { <<<<1,0>>, <<0,0>>, "">>, <<<<1,1>>, <<5,9>>, "PM">>, <<<<1,2>>, <<0,5>>, "am">>,
      <<<<1,3>>, <<0,0>>, "PM">>, <<<<0>>, <<5>>, "">> }

ShapeTexts ==
    { DateText(g1, g2, g3, c[1], c[2], c[3]) :
        g1 \in ShapeGroups, g2 \in ShapeGroups, g3 \in ShapeGroups, c \in ShapeClocks }

\* year-first readings of 2025 around the year's start, midsummer and the
\* daylight-saving transitions of New York and Amsterdam
CalendarTexts ==
    { DateText(<<2,0,2,5>>, m, d, hh, mm, "") :
        m \in {<<0,1>>, <<0,3>>, <<0,7>>, <<1,0>>, <<1,1>>},
        d \in {<<0,1>>, <<0,2>>, <<0,4>>, <<0,9>>, <<2,6>>, <<3,0>>},
        hh \in {<<0,0>>, <<0,1>>, <<0,2>>, <<0,3>>, <<1,2>>},
        mm \in {<<0,0>>, <<3,0>>} }

ParseTexts == ShapeTexts \cup CalendarTexts \cup {FreeText("next tuesday")}

ParseZones == {NoTz, "America/New_York", "Europe/Amsterdam"}

AllFormatStyles == {NoChoice} \cup {FORMAT_OPTIONS[i] : i \in DOMAIN FORMAT_OPTIONS}

TimestampOfText ==
    /\ out = Idle
    /\ \E date_time \in ParseTexts, timezone \in ParseZones,
          format_style \in AllFormatStyles :
         generate_timestamp_slash(1, NoGuild, date_time, timezone, format_style,
                                  "ok", "ok")

NextParse == TimestampOfText \/ Done

SpecParse == Init /\ [][NextParse]_vars

----------------------------------------------------------------------------
(* What the properties below speak about *)

IsTimestamp == out.req.op = "timestamp"

IsSetting == out.req.op \in {"set_my_timezone", "set_server_timezone"}

\* the zones stored for a user and for a server: the document store read
\* directly, without find_one
PersonalZonesIn(coll, user) == {d.timezone : d \in {e \in coll : e._id = user}}

ServerZonesIn(coll, guild) == {d.default_timezone : d \in {e \in coll : e._id = guild}}

PersonalZones(user) == PersonalZonesIn(user_settings, user)

ServerZones(guild) == ServerZonesIn(guild_settings, guild)

\* the zones the stated precedence allows for a request in the present store
PrecedenceZones(req) ==
    IF req.timezone # NoTz THEN {req.timezone}
    ELSE IF PersonalZones(req.user) # {} THEN PersonalZones(req.user)
    ELSE IF req.guild # NoGuild /\ ServerZones(req.guild) # {} THEN ServerZones(req.guild)
    ELSE {"UTC"}

----------------------------------------------------------------------------
(* C1 *)

\* C1: whenever /timestamp has settled its timezone (no store call failed),
\* the timezone it uses is the explicit argument if one was given, else the
\* requester's stored zone if there is one, else (in a server) the server's
\* stored zone if there is one, else UTC; and that is the zone its response
\* names.
C1_Precedence ==
    (IsTimestamp /\ out.via # "") =>
        /\ {out.timezone} = PrecedenceZones(out.req)
        /\ out.resp.kind = "embed" =>
              \A z \in PrecedenceZones(out.req) : out.resp.zone_label = upper(z)
        /\ out.resp.kind = "timezone_error" =>
              {out.resp.timezone} = PrecedenceZones(out.req)

\* C1 witness: no explicit timezone, the requester has a personal record, the
\* server has a different default, and the response names the personal zone.
C1_Witness ==
    /\ IsTimestamp
    /\ out.req.timezone = NoTz
    /\ out.req.guild # NoGuild
    /\ PersonalZones(out.req.user) = {"America/New_York"}
    /\ ServerZones(out.req.guild) = {"Europe/Amsterdam"}
    /\ out.resp.kind = "embed"
    /\ out.resp.zone_label = "AMERICA/NEW_YORK"

----------------------------------------------------------------------------
(* C2 *)

\* one record at most per key, and that record holds the zone of the latest
\* acknowledged set for the key
C2_Lookup ==
    /\ \A u \in Users :
         /\ Cardinality({d \in user_settings : d._id = u}) <= 1
         /\ find_one(user_settings, u) =
               IF hist.user[u] = "" THEN NoDoc
               ELSE [_id |-> u, timezone |-> hist.user[u]]
    /\ \A g \in Guilds :
         /\ Cardinality({d \in guild_settings : d._id = g}) <= 1
         /\ find_one(guild_settings, g) =
               IF hist.guild[g] = "" THEN NoDoc
               ELSE [_id |-> g, default_timezone |-> hist.guild[g]]
    /\ \A d \in user_settings : d._id \in Users
    /\ \A d \in guild_settings : d._id \in Guilds

\* a setting command touches its own key only, and nothing when the key
\* already holds the zone
C2_Step ==
    /\ out'.req.op = "set_my_timezone" =>
         /\ guild_settings' = guild_settings
         /\ \A u \in Users \ {out'.req.user} :
              find_one(user_settings', u) = find_one(user_settings, u)
         /\ out'.resp.kind = "personal_set" =>
              /\ PersonalZonesIn(user_settings', out'.req.user) = {out'.req.timezone}
              /\ PersonalZones(out'.req.user) = {out'.req.timezone} =>
                    user_settings' = user_settings
    /\ out'.req.op = "set_server_timezone" =>
         /\ user_settings' = user_settings
         /\ \A g \in Guilds \ {out'.req.guild} :
              find_one(guild_settings', g) = find_one(guild_settings, g)
         /\ out'.resp.kind = "server_set" =>
              /\ ServerZonesIn(guild_settings', out'.req.guild) = {out'.req.timezone}
              /\ ServerZones(out'.req.guild) = {out'.req.timezone} =>
                    guild_settings' = guild_settings

\* C2: after any sequence of setting commands there is at most one record per
\* (scope, id); a lookup returns the zone of the latest successful set for
\* that key; a set with the zone already stored leaves the store unchanged;
\* a set for one key changes no other key's record.
C2_LastWriteWins == []C2_Lookup /\ [][C2_Step]_vars

\* C2 witness: a user's record has just been overwritten with another zone
\* while another user and a server hold records of their own.
C2_Witness ==
    /\ out.req.op = "set_my_timezone"
    /\ out.resp.kind = "personal_set"
    /\ out.result.matched_count = 1
    /\ out.result.modified_count = 1
    /\ \E u \in Users \ {out.req.user} :
         PersonalZones(u) # {} /\ PersonalZones(u) # {out.req.timezone}
    /\ guild_settings # {}

----------------------------------------------------------------------------
(* C3 *)

\* C3 as stated: a setting command given an unrecognised zone name answers
\* with the timezone error and writes nothing, and every stored zone is a
\* recognised one.
C3_AsStated ==
    /\ (IsSetting /\ out.req.timezone \notin all_timezones) =>
          /\ out.resp = TimezoneError(out.req.timezone)
          /\ out.result = NoUpdate
    /\ \A d \in user_settings : d.timezone \in all_timezones
    /\ \A d \in guild_settings : d.default_timezone \in all_timezones

C3_StoredZonesValid ==
    /\ \A d \in user_settings : d.timezone \in all_timezones
    /\ \A d \in guild_settings : d.default_timezone \in all_timezones

C3_Step ==
    (out'.req.op \in {"set_my_timezone", "set_server_timezone"}
        /\ out'.req.timezone \notin all_timezones) =>
        /\ user_settings' = user_settings
        /\ guild_settings' = guild_settings
        /\ out'.raised = ""
        /\ out'.result = NoUpdate
        /\ out'.resp =
              IF out'.req.op = "set_server_timezone" /\ out'.req.guild = NoGuild
              THEN ServerOnly
              ELSE TimezoneError(out'.req.timezone)

\* C3, amended: given an unrecognised zone name, set_my_timezone, and
\* set_server_timezone used in a server, answer with the timezone error;
\* set_server_timezone used in a direct message answers that the command is
\* for servers only; in every case both collections stay as they were, and
\* every record ever stored holds a recognised zone name.
C3_InvalidZoneRejected == []C3_StoredZonesValid /\ [][C3_Step]_vars

\* C3 witness: set_server_timezone in a server has just refused an
\* unrecognised zone while both collections hold records.
C3_Witness ==
    /\ out.req.op = "set_server_timezone"
    /\ out.req.guild # NoGuild
    /\ out.req.timezone \notin all_timezones
    /\ out.resp = TimezoneError(out.req.timezone)
    /\ user_settings # {}
    /\ guild_settings # {}

----------------------------------------------------------------------------
(* C7 *)

\* C7 as stated: unless the invocation was cancelled, no exception leaves a
\* handler and every invocation ends with a response sent.
C7_AsStated ==
    (out # Idle /\ out.raised # "CancelledError") =>
        /\ out.raised = ""
        /\ out.resp # NoResponse

----------------------------------------------------------------------------
(* C8 *)

\* the four sources of section 4.2, by the branch of step 1
SourceOf(via) ==
    CASE via = "argument" -> "Explicit"
      [] via = "user_setting" -> "UserDefault"
      [] via = "guild_setting" -> "ServerDefault"
      [] OTHER -> "UTCFallback"

\* C8 as stated: the source a successful response reports is reported by no
\* successful response that resolved through another source (here: one the
\* same store would give to another request).
C8_AsStated ==
    (IsTimestamp /\ out.resp.kind = "embed") =>
        \A user \in Users, guild \in Guilds \cup {NoGuild}, timezone \in TimezoneArgs :
            LET other == timestamp_validate(
                            [out.req EXCEPT !.user = user, !.guild = guild,
                                            !.timezone = timezone],
                            determine_timezone(user, guild, timezone, "ok", "ok"))
            IN  (other.resp.kind = "embed" /\ SourceOf(other.via) # SourceOf(out.via))
                    => other.resp.source # out.resp.source

----------------------------------------------------------------------------
(* C10 *)

C10_Reads ==
    IsTimestamp =>
        /\ "user_settings" \in out.reads => out.req.timezone = NoTz
        /\ "guild_settings" \in out.reads =>
              /\ out.req.timezone = NoTz
              /\ PersonalZones(out.req.user) = {}
              /\ out.req.guild # NoGuild
        /\ out.reads \subseteq {"user_settings", "guild_settings"}

C10_Step ==
    out'.req.op = "timestamp" =>
        /\ user_settings' = user_settings
        /\ guild_settings' = guild_settings

\* C10: /timestamp leaves both collections as they were on every path
\* (success, invalid timezone, unparseable date, store failure,
\* cancellation); it queries the store only when no explicit timezone was
\* given, and the server collection only when the requester has no personal
\* record and the request comes from a server.
C10_ReadOnly == []C10_Reads /\ [][C10_Step]_vars

\* C10 witness: a request without explicit timezone, from a server, by a user
\* without a personal record, has queried both collections, which hold records.
C10_Witness ==
    /\ IsTimestamp
    /\ out.req.timezone = NoTz
    /\ out.reads = {"user_settings", "guild_settings"}
    /\ out.resp.kind = "embed"
    /\ user_settings # {}
    /\ guild_settings # {}

----------------------------------------------------------------------------
(* The resolver's properties, under SpecParse *)

\* the zone a name resolves to
ZoneOf(name) == CHOOSE z \in all_timezones : upper(z) = upper(name)

ZoneOffsets(zone) == {ZoneTransitions(zone)[i].off : i \in DOMAIN ZoneTransitions(zone)}

\* the instants whose wall-clock reading in the zone is `wall`
InstantsOf(zone, wall) ==
    {e \in {wall - off : off \in ZoneOffsets(zone)} : e + OffsetAt(zone, e) = wall}

\* the formats that parse a text
ParsingFormats(date_time) ==
    {i \in DOMAIN formats_to_try : strptime(date_time, formats_to_try[i]).raised = ""}

\* the handler got as far as parsing
ReachedParsing == IsTimestamp /\ out.via # "" /\ out.caught # "UnknownTimeZoneError"

----------------------------------------------------------------------------
(* C4 *)

\* C4 as stated: when the parsed wall-clock time occurs twice or never in the
\* effective timezone, /timestamp reports no error and returns a rendered
\* timestamp.
C4_AsStated ==
    (ReachedParsing /\ out.fmt # 0
        /\ Cardinality(InstantsOf(ZoneOf(out.timezone),
              WallSeconds(try_formats(out.req.date_time, 1).dt))) # 1)
    => (out.resp.kind = "embed" /\ out.caught = "")

----------------------------------------------------------------------------
(* C5 *)

\* C5 as stated: when the text matches none of the six formats, /timestamp
\* answers with the format error, which carries the text and lists all six
\* attempted formats.
C5_AsStated ==
    (ReachedParsing /\ ParsingFormats(out.req.date_time) = {}) =>
        /\ out.resp.kind = "format_error"
        /\ out.resp.date_time = out.req.date_time
        /\ Len(out.resp.formats) = Len(formats_to_try)

----------------------------------------------------------------------------
(* C6 *)

YearFirst(t) == Len(t.groups) = 5 /\ Len(t.groups[1]) = 4

DayFirstOver12(t) ==
    /\ Len(t.groups) = 5 /\ Len(t.groups[3]) = 4
    /\ Len(t.groups[1]) <= 2 /\ Val(t.groups[1]) > 12

MonthFirstOver12(t) ==
    /\ Len(t.groups) = 5 /\ Len(t.groups[3]) = 4
    /\ Len(t.groups[1]) <= 2 /\ Val(t.groups[1]) \in 1 .. 12
    /\ Len(t.groups[2]) <= 2 /\ Val(t.groups[2]) > 12

EuropeanAndAmerican(t) ==
    /\ ParsingFormats(t) \cap {2, 5} # {}
    /\ ParsingFormats(t) \cap {3, 6} # {}

FirstThatParses ==
    ReachedParsing =>
        /\ out.fmt = 0 <=> ParsingFormats(out.req.date_time) = {}
        /\ out.fmt # 0 =>
              /\ out.fmt \in ParsingFormats(out.req.date_time)
              /\ \A j \in ParsingFormats(out.req.date_time) : out.fmt <= j

ReadAsEuropean ==
    (ReachedParsing /\ EuropeanAndAmerican(out.req.date_time)) =>
        /\ out.fmt \in {2, 5}
        /\ out.resp.kind = "embed" =>
              /\ out.resp.input_time.day = Val(out.req.date_time.groups[1])
              /\ out.resp.input_time.month = Val(out.req.date_time.groups[2])

\* C6 as stated: the first format that parses is used; a year-first text is
\* parsed by format 1, a day-first text with a day over 12 by format 2, a
\* month-first text with a day over 12 by an American format, and a text
\* valid as European and as American is read as European.
C6_AsStated ==
    /\ FirstThatParses
    /\ (ReachedParsing /\ out.fmt # 0) =>
          /\ YearFirst(out.req.date_time) => out.fmt = 1
          /\ DayFirstOver12(out.req.date_time) => out.fmt = 2
          /\ MonthFirstOver12(out.req.date_time) => out.fmt \in {3, 6}
    /\ ReadAsEuropean

\* C6, amended: the six formats are tried in their fixed order and the first
\* that parses is used; a year-first text is parsed by format 1 when its clock
\* is 24-hour and by format 4 when it carries AM/PM, a day-first text with a
\* day over 12 by format 2 or, with AM/PM, format 5, a month-first text with a
\* day over 12 by format 3 or, with AM/PM, format 6, and a text valid as
\* European and as American is read as European (day first).
C6_FormatOrder ==
    /\ FirstThatParses
    /\ (ReachedParsing /\ out.fmt # 0) =>
          /\ YearFirst(out.req.date_time) =>
                out.fmt = IF out.req.date_time.suffix = "" THEN 1 ELSE 4
          /\ DayFirstOver12(out.req.date_time) =>
                out.fmt = IF out.req.date_time.suffix = "" THEN 2 ELSE 5
          /\ MonthFirstOver12(out.req.date_time) =>
                out.fmt = IF out.req.date_time.suffix = "" THEN 3 ELSE 6
    /\ ReadAsEuropean

\* C6 witness: "01-02-2025 10:00" has been read by format 2 as 1 February.
C6_Witness ==
    /\ IsTimestamp
    /\ out.req.date_time = DateText(<<0,1>>, <<0,2>>, <<2,0,2,5>>, <<1,0>>, <<0,0>>, "")
    /\ out.fmt = 2
    /\ out.resp.kind = "embed"
    /\ out.resp.input_time.day = 1
    /\ out.resp.input_time.month = 2

----------------------------------------------------------------------------
(* C9 *)

StyleCodes == {"t", "T", "d", "D", "f", "F", "R"}

\* a parsed wall-clock time that is one instant in the effective timezone
\* gives a rendered timestamp
C9_UnambiguousRenders ==
    (ReachedParsing /\ out.fmt # 0
        /\ Cardinality(InstantsOf(ZoneOf(out.timezone),
              WallSeconds(try_formats(out.req.date_time, 1).dt))) = 1)
    => out.resp.kind = "embed"

\* C9: a wall-clock time that is unambiguous in the effective timezone is
\* rendered, and a successful /timestamp returns the markup <t:E:S>: E, in
\* decimal, is the one instant whose wall-clock reading in the effective
\* timezone is the parsed time (a whole number of seconds: wall-clock seconds
\* minus the zone's UTC offset then in force), and S is the style asked for,
\* one of the seven codes, or F when none was asked for.  2025-07-04 12:00 in
\* New York gives 2025-07-04T16:00:00Z; 2025-01-01 00:00 in UTC gives itself.
C9_Markup ==
    /\ C9_UnambiguousRenders
    /\ (IsTimestamp /\ out.resp.kind = "embed") =>
        LET code == out.resp.code
            E    == Val(code.digits)
            zone == ZoneOf(out.timezone)
            wall == WallSeconds(try_formats(out.req.date_time, 1).dt)
        IN  /\ code.open = "<t:" /\ code.sep = ":" /\ code.close = ">"
            /\ code.digits = Decimal(E)
            /\ E = out.resp.unix
            /\ InstantsOf(zone, wall) = {E}
            /\ E = wall - OffsetAt(zone, E)
            /\ out.resp.input_time = try_formats(out.req.date_time, 1).dt
            /\ code.style \in StyleCodes
            /\ code.style = IF out.req.format_style = NoChoice THEN "F"
                            ELSE out.req.format_style.value
            /\ (zone = "America/New_York"
                  /\ out.resp.input_time =
                       [year |-> 2025, month |-> 7, day |-> 4, hour |-> 12, minute |-> 0])
               => E = UtcInstant(2025, 7, 4, 16, 0)
            /\ (zone = "UTC"
                  /\ out.resp.input_time =
                       [year |-> 2025, month |-> 1, day |-> 1, hour |-> 0, minute |-> 0])
               => E = UtcInstant(2025, 1, 1, 0, 0)

\* C9 witness: 2025-07-04 12:00 in New York, relative style, has given
\* <t:1751644800:R>.
C9_Witness ==
    /\ IsTimestamp
    /\ out.req.date_time = DateText(<<2,0,2,5>>, <<0,7>>, <<0,4>>, <<1,2>>, <<0,0>>, "")
    /\ out.timezone = "America/New_York"
    /\ out.resp.kind = "embed"
    /\ out.resp.code =
          [open |-> "<t:", digits |-> <<1,7,5,1,6,4,4,8,0,0>>, sep |-> ":",
           style |-> "R", close |-> ">"]

====
